---------------------------- MODULE Spec2Model ----------------------------
(***************************************************************************)
(* A model of chipnumpy's Synthesizer (src/chipnumpy/synthesizer.py) and   *)
(* its constants (src/chipnumpy/constants.py).                             *)
(*                                                                         *)
(* One Synthesizer object is modelled.  Its state is the random stream     *)
(* _rng and the class attribute HEADER.  Every method call is one action   *)
(* that takes the object from "idle" to "returned" and records the call,   *)
(* how it ended (ok, error, diverges) and what it returned; Return then    *)
(* hands control back to the caller.  A call that diverges never returns.  *)
(*                                                                         *)
(* Numbers.  Python floats are modelled as exact rationals <<n, d>> in     *)
(* lowest terms with d > 0, so the rounding of IEEE arithmetic is not      *)
(* modelled.  numpy's sin is a library function; its values are modelled   *)
(* by Bhaskara's rational approximation (exact at 0, 1/12, 1/4, 5/12 and   *)
(* 1/2 of a turn, within 0.002 elsewhere, and never outside [-1, 1]).      *)
(* numpy's RandomState is modelled by a counter modulo RngMod whose value  *)
(* gives the number drawn.  Strings are sequences of one-character         *)
(* strings and bytes are integers in 0..255.                               *)
(***************************************************************************)
EXTENDS Integers, Sequences, FiniteSets, TLC

VARIABLES pc, rng, header, call, outcome, retBytes, retFreq, cycle

vars == <<pc, rng, header, call, outcome, retBytes, retFreq, cycle>>

---------------------------------------------------------------------------
(* Bounds of the model. *)

\* Durations are k / 88200 seconds for k in 0..MaxDur (k \div 2 samples).
MaxDur == 8
\* Longest array handed directly to _to_bytes.
MaxArr == 3
\* Longest payload handed to to_wav.
MaxPayload == 2
\* Number of states of the modelled random stream.
RngMod == 3

---------------------------------------------------------------------------
(* Exact rational arithmetic standing for Python's float arithmetic. *)

Abs(x) == IF x < 0 THEN -x ELSE x

RECURSIVE GCD(_, _)
GCD(a, b) == IF b = 0 THEN a ELSE GCD(b, a % b)

\* The rational n / d (d # 0) in lowest terms with a positive denominator.
Rat(n, d) ==
    LET g == GCD(Abs(n), Abs(d))
        s == IF d < 0 THEN -1 ELSE 1
    IN  <<(s * n) \div g, (s * d) \div g>>

Whole(n) == <<n, 1>>
RatSub(a, b) == Rat(a[1] * b[2] - b[1] * a[2], a[2] * b[2])
RatMul(a, b) == Rat(a[1] * b[1], a[2] * b[2])
RatDiv(a, b) == Rat(a[1] * b[2], a[2] * b[1])
RatNeg(a) == <<-a[1], a[2]>>
RatAbs(a) == <<Abs(a[1]), a[2]>>
RatLt(a, b) == a[1] * b[2] < b[1] * a[2]
RatLe(a, b) == a[1] * b[2] <= b[1] * a[2]

\* Python's int(x) on a float: truncation toward zero.
Trunc(a) == IF a[1] >= 0 THEN a[1] \div a[2] ELSE -((-a[1]) \div a[2])

\* trunc(n * k / d) for d > 0 and k >= 0, computed without forming n * k
\* (TLC's integers are 32 bits wide): the quotient and remainder of
\* (n % d) * k by d, by doubling.
RECURSIVE MulDivMod(_, _, _)
MulDivMod(r, k, d) ==
    IF k = 0 THEN <<0, 0>>
    ELSE LET h == MulDivMod(r, k \div 2, d)
             t == 2 * h[2] + (k % 2) * r
         IN  <<2 * h[1] + t \div d, t % d>>

ScaleTrunc(a, k) ==
    LET n == Abs(a[1])
        m == (n \div a[2]) * k + MulDivMod(n % a[2], k, a[2])[1]
    IN  IF a[1] >= 0 THEN m ELSE -m

---------------------------------------------------------------------------
(* constants.py *)

FRAMERATE == 44100
AMPLITUDE_SCALE == 32767
NUM_CHANNELS == 1
NUM_BITS == 16

NOTES ==
    (<<"C">> :> Rat(26163, 100)) @@ (<<"C", "#">> :> Rat(277183, 1000)) @@
    (<<"D">> :> Rat(29366, 100)) @@ (<<"D", "#">> :> Rat(311127, 1000)) @@
    (<<"E">> :> Rat(32963, 100)) @@
    (<<"F">> :> Rat(34923, 100)) @@ (<<"F", "#">> :> Rat(369994, 1000)) @@
    (<<"G">> :> Rat(39200, 100)) @@ (<<"G", "#">> :> Rat(415305, 1000)) @@
    (<<"A">> :> Rat(44000, 100)) @@ (<<"A", "#">> :> Rat(466164, 1000)) @@
    (<<"B">> :> Rat(49388, 100))

OCTAVES ==
    (0 :> Rat(6, 100)) @@ (1 :> Rat(12, 100)) @@ (2 :> Rat(25, 100)) @@
    (3 :> Rat(5, 10)) @@ (4 :> Whole(1)) @@ (5 :> Whole(2)) @@ (6 :> Whole(4)) @@
    (7 :> Whole(8)) @@ (8 :> Whole(16))

---------------------------------------------------------------------------
(* Bytes and struct.pack *)

\* struct.pack('<I', v) and struct.pack('<H', v)
PackU32(v) ==
    <<v % 256, (v \div 256) % 256, (v \div 65536) % 256, (v \div 16777216) % 256>>
PackU16(v) == <<v % 256, (v \div 256) % 256>>

\* The character codes of b"RIFF", b"WAVEfmt " and b"data".
RIFF == <<82, 73, 70, 70>>
WAVEfmt == <<87, 65, 86, 69, 102, 109, 116, 32>>
DATA == <<100, 97, 116, 97>>

\* Synthesizer.HEADER: the value struct.pack returns is a bytes object,
\* which Python does not allow to be changed in place.
HEADER ==
    [mutable |-> FALSE,
     data |-> RIFF \o PackU32(0) \o WAVEfmt \o PackU32(NUM_BITS) \o PackU16(1)
              \o PackU16(NUM_CHANNELS) \o PackU32(FRAMERATE)
              \o PackU32((FRAMERATE * NUM_CHANNELS * NUM_BITS) \div 8)
              \o PackU16((NUM_CHANNELS * NUM_BITS) \div 8) \o PackU16(NUM_BITS)
              \o DATA \o PackU32(0)]

\* obj[lo:hi] = val for 0 <= lo <= hi <= len(obj) and len(val) = hi - lo:
\* a TypeError on an immutable object.
SetSlice(obj, lo, hi, val) ==
    IF obj.mutable
    THEN [ok |-> TRUE,
          obj |-> [obj EXCEPT !.data =
                      SubSeq(obj.data, 1, lo) \o val
                      \o SubSeq(obj.data, hi + 1, Len(obj.data))]]
    ELSE [ok |-> FALSE, obj |-> obj]

---------------------------------------------------------------------------
(* Notes and frequencies *)

\* A note argument: a str, a float or an int.
StrNote(s) == [type |-> "str", s |-> s, v |-> <<0, 1>>]
FloatNote(v) == [type |-> "float", s |-> <<>>, v |-> v]
IntNote(n) == [type |-> "int", s |-> <<>>, v |-> <<n, 1>>]
NoNote == [type |-> "none", s |-> <<>>, v |-> <<0, 1>>]

\* int(c) on a one-character string: a ValueError unless c is a digit.
DigitValue ==
    ("0" :> 0) @@ ("1" :> 1) @@ ("2" :> 2) @@ ("3" :> 3) @@ ("4" :> 4) @@
    ("5" :> 5) @@ ("6" :> 6) @@ ("7" :> 7) @@ ("8" :> 8) @@ ("9" :> 9)

Fail == [ok |-> FALSE, v |-> <<0, 1>>]

\* A slip: note[:1], the first character alone.
PitchName_FirstChar(s) == IF Len(s) = 0 THEN <<>> ELSE <<s[1]>>

\* note[:-1]: everything but the last character (empty for an empty string).
PitchName(s) == SubSeq(s, 1, Len(s) - 1)

\* Synthesizer._get_frequency.  A str gives NOTES[note[:-1]] *
\* OCTAVES[int(note[-1])], with a KeyError, ValueError or IndexError when a
\* lookup or the conversion fails; a float is returned as it is; anything
\* else raises Exception("Invalid note").
_get_frequency(note) ==
    IF note.type = "str"
    THEN IF PitchName(note.s) \notin DOMAIN NOTES THEN Fail
         ELSE IF note.s[Len(note.s)] \notin DOMAIN DigitValue THEN Fail
         ELSE IF DigitValue[note.s[Len(note.s)]] \notin DOMAIN OCTAVES THEN Fail
         ELSE [ok |-> TRUE,
               v |-> RatMul(NOTES[PitchName(note.s)],
                            OCTAVES[DigitValue[note.s[Len(note.s)]]])]
    ELSE IF note.type = "float" THEN [ok |-> TRUE, v |-> note.v]
    ELSE Fail

\* int(FRAMERATE / frequency), for frequency > 0.
Period(frequency) == Trunc(RatDiv(Whole(FRAMERATE), frequency))

\* 0 if amplitude < 0 else 1 if amplitude > 1 else amplitude
Clamp(amplitude) ==
    IF RatLt(amplitude, Whole(0)) THEN Whole(0)
    ELSE IF RatLt(Whole(1), amplitude) THEN Whole(1)
    ELSE amplitude

\* np.arange(0, period).astype(np.float64): element k (from 1) is k - 1.
Arange(period) == [k \in 1..period |-> Whole(k - 1)]

\* Synthesizer._start: frequency, period, clamped amplitude, index array.
_start(note, amplitude) ==
    LET f == _get_frequency(note)
    IN  IF ~f.ok THEN [ok |-> FALSE]
        ELSE [ok |-> TRUE, frequency |-> f.v, period |-> Period(f.v),
              amplitude |-> Clamp(amplitude), arr |-> Arange(Period(f.v))]

---------------------------------------------------------------------------
(* Waveform generators: one period of samples *)

\* np.sin(2 * np.pi * p) for p turns, 0 <= p < 1, by Bhaskara's
\* approximation sin(pi x) ~ 16 x (1 - x) / (5 - 4 x (1 - x)) on [0, 1].
HalfSine(x) ==
    Rat(16 * x[1] * (x[2] - x[1]),
        5 * x[2] * x[2] - 4 * x[1] * (x[2] - x[1]))
Sin2Pi(p) ==
    IF RatLe(RatMul(Whole(2), p), Whole(1))
    THEN HalfSine(RatMul(Whole(2), p))
    ELSE RatNeg(HalfSine(RatSub(RatMul(Whole(2), p), Whole(1))))

\* Synthesizer._sine: amplitude * sin(2 pi frequency (arr % period) / FRAMERATE).
\* For 0 <= t < period, t % period is t.
_sine(note, amplitude) ==
    LET st == _start(note, amplitude)
    IN  IF ~st.ok THEN [ok |-> FALSE, arr |-> <<>>]
        ELSE [ok |-> TRUE,
              arr |-> [k \in 1..st.period |->
                         RatMul(Sin2Pi(RatDiv(RatMul(st.frequency, st.arr[k]),
                                              Whole(FRAMERATE))),
                                st.amplitude)]]

\* Synthesizer._triangle.  amplitude / half_period divides two Python
\* numbers: a ZeroDivisionError when the period is 0.
_triangle(note, amplitude) ==
    LET st == _start(note, amplitude)
        half_period == Rat(st.period, 2)
    IN  IF ~st.ok THEN [ok |-> FALSE, arr |-> <<>>]
        ELSE IF st.period = 0 THEN [ok |-> FALSE, arr |-> <<>>]
        ELSE [ok |-> TRUE,
              arr |-> [k \in 1..st.period |->
                         RatMul(RatDiv(st.amplitude, half_period),
                                RatSub(RatSub(half_period,
                                              RatMul(RatAbs(RatSub(st.arr[k], half_period)),
                                                     Whole(2))),
                                       Whole(1)))]]

\* Synthesizer._sawtooth
_sawtooth(note, amplitude) ==
    LET st == _start(note, amplitude)
    IN  IF ~st.ok THEN [ok |-> FALSE, arr |-> <<>>]
        ELSE [ok |-> TRUE,
              arr |-> [k \in 1..st.period |->
                         RatMul(st.amplitude,
                                RatSub(RatMul(RatMul(st.frequency,
                                                     RatDiv(st.arr[k], Whole(FRAMERATE))),
                                              Whole(2)),
                                       Whole(1)))]]

\* A slip: the sample at the threshold counted as high (<= for <).
_pulse_Inclusive(note, amplitude, duty_cycle) ==
    LET st == _start(note, amplitude)
        duty == Trunc(Rat(duty_cycle * st.period, 100))
    IN  IF ~st.ok THEN [ok |-> FALSE, arr |-> <<>>]
        ELSE [ok |-> TRUE,
              arr |-> [k \in 1..st.period |->
                         RatMul(st.amplitude,
                                Whole((IF RatLe(st.arr[k], Whole(duty)) THEN 1 ELSE 0) * 2 - 1))]]

\* Synthesizer._pulse
_pulse(note, amplitude, duty_cycle) ==
    LET st == _start(note, amplitude)
        duty == Trunc(Rat(duty_cycle * st.period, 100))
    IN  IF ~st.ok THEN [ok |-> FALSE, arr |-> <<>>]
        ELSE [ok |-> TRUE,
              arr |-> [k \in 1..st.period |->
                         RatMul(st.amplitude,
                                Whole((IF RatLt(st.arr[k], Whole(duty)) THEN 1 ELSE 0) * 2 - 1))]]

\* The random stream: a counter modulo RngMod standing
\* for np.random.RandomState.  Draw k (from 1) of a call that starts in
\* state s moves the stream to RngAfter(s, k), and uniform(-1, 1) maps that
\* state u to -1 + 2 * u / RngMod, a value in [-1, 1): UniformAt(s, k).
RngAfter(s, k) == (s + k) % RngMod
UniformAt(s, k) == Rat(2 * RngAfter(s, k) - RngMod, RngMod)

\* Synthesizer._noise: the samples and the stream afterwards.  The amplitude
\* multiplies the samples as it was given.
_noise(s, note, amplitude) ==
    LET f == _get_frequency(note)
        period == Period(f.v)
    IN  IF ~f.ok THEN [ok |-> FALSE, arr |-> <<>>, rng |-> s]
        ELSE [ok |-> TRUE,
              arr |-> [k \in 1..period |-> RatMul(UniformAt(s, k), amplitude)],
              rng |-> RngAfter(s, period)]

---------------------------------------------------------------------------
(* _to_bytes: quantize one period and tile it over the output *)

\* What the cast of an out-of-range float to int16 may give: the low 16
\* bits of the truncated value, or the nearest end of the int16 range.
CastModes == {"wrap", "saturate"}

\* A slip: the product rounded to the nearest integer (ties away from zero)
\* before the cast.
Quantize_Rounds(x, mode) ==
    LET n == Abs(x[1])
        md == MulDivMod(n % x[2], AMPLITUDE_SCALE, x[2])
        m == (n \div x[2]) * AMPLITUDE_SCALE + md[1]
                + (IF 2 * md[2] >= x[2] THEN 1 ELSE 0)
        v == IF x[1] < 0 THEN -m ELSE m
    IN  IF -32768 <= v /\ v <= 32767 THEN v
        ELSE IF mode = "wrap" THEN ((v + 32768) % 65536) - 32768
        ELSE IF v < 0 THEN -32768 ELSE 32767

\* One element of (arr * AMPLITUDE_SCALE).astype(np.int16): the product is
\* truncated toward zero; a value outside the int16 range is cast as the
\* build casts it.
Quantize(x, mode) ==
    LET v == ScaleTrunc(x, AMPLITUDE_SCALE)
    IN  IF -32768 <= v /\ v <= 32767 THEN v
        ELSE IF mode = "wrap" THEN ((v + 32768) % 65536) - 32768
        ELSE IF v < 0 THEN -32768 ELSE 32767

\* A slip: a chunk that does not fit is not copied at all.
TileBody_NoPartial(i, samples, int16s) ==
    LET n == Len(samples)
        p == Len(int16s)
    IN  [i |-> i + p,
         samples |->
            IF i + p > n THEN samples
            ELSE [j \in 1..n |-> IF j > i /\ j <= i + p THEN int16s[j - i]
                                                       ELSE samples[j]]]

\* One pass of the body of the while loop, from index i (i < len(samples)):
\* the whole chunk is copied when it fits and its first len(samples) - i
\* elements when it does not; i advances by the length of the chunk.
TileBody(i, samples, int16s) ==
    LET n == Len(samples)
        p == Len(int16s)
    IN  [i |-> i + p,
         samples |->
            IF i + p > n
            THEN [j \in 1..n |-> IF j > i THEN int16s[j - i] ELSE samples[j]]
            ELSE [j \in 1..n |-> IF j > i /\ j <= i + p THEN int16s[j - i]
                                                       ELSE samples[j]]]

\* The while loop.  A pass that leaves both i and samples as they were
\* would be repeated for ever: the loop does not end.
RECURSIVE TileLoop(_, _, _)
TileLoop(i, samples, int16s) ==
    IF ~(i < Len(samples)) THEN [ended |-> TRUE, samples |-> samples]
    ELSE LET nxt == TileBody(i, samples, int16s)
         IN  IF nxt.i = i /\ nxt.samples = samples
             THEN [ended |-> FALSE, samples |-> samples]
             ELSE TileLoop(nxt.i, nxt.samples, int16s)

\* ndarray.tobytes() on int16 data: two bytes per sample, low byte first,
\* two's complement.
Int16Bytes(v) == PackU16((v + 65536) % 65536)
RECURSIVE ToBytes(_)
ToBytes(samples) ==
    IF Len(samples) = 0 THEN <<>>
    ELSE Int16Bytes(Head(samples)) \o ToBytes(Tail(samples))

\* int(FRAMERATE * length), for length >= 0.
NumSamples(length) == Trunc(RatMul(Whole(FRAMERATE), length))

\* Synthesizer._to_bytes
_to_bytes(arr, length, mode) ==
    LET samples == [j \in 1..NumSamples(length) |-> 0]
        int16s == [k \in 1..Len(arr) |-> Quantize(arr[k], mode)]
        loop == TileLoop(0, samples, int16s)
    IN  IF loop.ended THEN [outcome |-> "ok", bytes |-> ToBytes(loop.samples)]
        ELSE [outcome |-> "diverges", bytes |-> <<>>]

---------------------------------------------------------------------------
(* to_wav *)

\* Synthesizer.to_wav on the header object h: the two length fields are
\* assigned into the header in place, then header and data are joined.
\* A failed assignment raises and nothing is returned.
to_wav_on(h, data) ==
    LET length == Len(data)
        s1 == SetSlice(h, 4, 8, PackU32(length + 36))
        s2 == SetSlice(s1.obj, Len(h.data) - 4, Len(h.data), PackU32(length))
    IN  IF ~s1.ok THEN [outcome |-> "error", header |-> h, bytes |-> <<>>]
        ELSE IF ~s2.ok THEN [outcome |-> "error", header |-> s1.obj, bytes |-> <<>>]
        ELSE [outcome |-> "ok", header |-> s2.obj, bytes |-> s2.obj.data \o data]

---------------------------------------------------------------------------
(* Inputs *)

\* Notes of short period (1 to 6 samples, and 0 for 50000 Hz), a note that
\* names no pitch and an int.
WaveNotes ==
    {FloatNote(Whole(f)) : f \in {11025, 14700, 22050, 44100, 50000}}
    \cup {StrNote(<<"A", "8">>), StrNote(<<"H", "4">>), IntNote(440)}
\* The same with 100.0 Hz, whose period is 441 samples.
PulseNotes == WaveNotes \cup {FloatNote(Whole(100))}

Pitches == DOMAIN NOTES \cup {<<>>, <<"H">>, <<"A", "b">>, <<"c">>}
LastChars == DOMAIN DigitValue \cup {"x"}
AllNotes ==
    {StrNote(n \o <<d>>) : n \in Pitches, d \in LastChars}
    \cup {StrNote(<<>>)}
    \cup {FloatNote(v) : v \in {Whole(440), Rat(26163, 100), Whole(50000)}}
    \cup {IntNote(440), IntNote(100)}

Amplitudes == {Rat(-1, 2), Whole(0), Rat(1, 2), Whole(1), Rat(3, 2)}
Durations == {Rat(k, 2 * FRAMERATE) : k \in 0..MaxDur}
DutyCycles == {1, 50, 100}
SampleValues == {Whole(-1), Rat(-1, 4), Whole(0), Rat(1, 4), Whole(1)}
Arrays == UNION {[1..n -> SampleValues] : n \in 0..MaxArr}
Payloads == UNION {[1..n -> {0, 1, 255}] : n \in 0..MaxPayload}
WaveOps == {"sine", "triangle", "sawtooth", "pulse", "noise"}

---------------------------------------------------------------------------
(* The state machine *)

NoCall ==
    [op |-> "none", note |-> NoNote, amplitude |-> Whole(0), length |-> Whole(0),
     duty_cycle |-> 0, data |-> <<>>]

\* Synthesizer.__init__: any seed, or none.
Init ==
    /\ pc = "idle"
    /\ rng \in 0..(RngMod - 1)
    /\ header = HEADER
    /\ call = NoCall
    /\ outcome = "none"
    /\ retBytes = <<>>
    /\ retFreq = Whole(0)
    /\ cycle = <<>>

\* A waveform method: the generator's result g handed to _to_bytes.
WaveCall(op, note, amplitude, length, duty_cycle, g) ==
    /\ pc = "idle"
    /\ pc' = "returned"
    /\ call' = [NoCall EXCEPT !.op = op, !.note = note, !.amplitude = amplitude,
                              !.length = length, !.duty_cycle = duty_cycle]
    /\ cycle' = g.arr
    /\ \E mode \in CastModes :
          LET r == IF g.ok THEN _to_bytes(g.arr, length, mode)
                   ELSE [outcome |-> "error", bytes |-> <<>>]
          IN  outcome' = r.outcome /\ retBytes' = r.bytes
    /\ UNCHANGED <<header, retFreq>>

sine(note, amplitude, length) ==
    /\ WaveCall("sine", note, amplitude, length, 0, _sine(note, amplitude))
    /\ UNCHANGED rng

triangle(note, amplitude, length) ==
    /\ WaveCall("triangle", note, amplitude, length, 0, _triangle(note, amplitude))
    /\ UNCHANGED rng

sawtooth(note, amplitude, length) ==
    /\ WaveCall("sawtooth", note, amplitude, length, 0, _sawtooth(note, amplitude))
    /\ UNCHANGED rng

pulse(note, amplitude, length, duty_cycle) ==
    /\ WaveCall("pulse", note, amplitude, length, duty_cycle,
                _pulse(note, amplitude, duty_cycle))
    /\ UNCHANGED rng

noise(note, amplitude, length) ==
    /\ WaveCall("noise", note, amplitude, length, 0, _noise(rng, note, amplitude))
    /\ rng' = _noise(rng, note, amplitude).rng

to_wav(data) ==
    /\ pc = "idle"
    /\ pc' = "returned"
    /\ call' = [NoCall EXCEPT !.op = "to_wav", !.data = data]
    /\ outcome' = to_wav_on(header, data).outcome
    /\ header' = to_wav_on(header, data).header
    /\ retBytes' = to_wav_on(header, data).bytes
    /\ UNCHANGED <<rng, retFreq, cycle>>

\* The static methods _to_bytes and _get_frequency called on their own.
CallToBytes(arr, length) ==
    /\ pc = "idle"
    /\ pc' = "returned"
    /\ call' = [NoCall EXCEPT !.op = "_to_bytes", !.length = length]
    /\ cycle' = arr
    /\ \E mode \in CastModes :
          /\ outcome' = _to_bytes(arr, length, mode).outcome
          /\ retBytes' = _to_bytes(arr, length, mode).bytes
    /\ UNCHANGED <<rng, header, retFreq>>

CallGetFrequency(note) ==
    /\ pc = "idle"
    /\ pc' = "returned"
    /\ call' = [NoCall EXCEPT !.op = "_get_frequency", !.note = note]
    /\ outcome' = IF _get_frequency(note).ok THEN "ok" ELSE "error"
    /\ retFreq' = _get_frequency(note).v
    /\ UNCHANGED <<rng, header, retBytes, cycle>>

\* The call returned or raised: the caller goes on.  A call that diverges
\* never gets here.
Return ==
    /\ pc = "returned"
    /\ outcome \in {"ok", "error"}
    /\ pc' = "idle"
    /\ call' = NoCall
    /\ outcome' = "none"
    /\ retBytes' = <<>>
    /\ retFreq' = Whole(0)
    /\ cycle' = <<>>
    /\ UNCHANGED <<rng, header>>

Next ==
    \/ \E note \in WaveNotes, amplitude \in Amplitudes, length \in Durations :
          \/ sine(note, amplitude, length)
          \/ triangle(note, amplitude, length)
          \/ sawtooth(note, amplitude, length)
          \/ noise(note, amplitude, length)
          \/ \E duty_cycle \in DutyCycles : pulse(note, amplitude, length, duty_cycle)
    \/ \E data \in Payloads : to_wav(data)
    \/ \E arr \in Arrays, length \in Durations : CallToBytes(arr, length)
    \/ \E note \in AllNotes : CallGetFrequency(note)
    \/ Return

Spec == Init /\ [][Next]_vars

\* The pulse method alone, over notes that include a long period.
PulseNext ==
    \/ \E note \in PulseNotes, amplitude \in Amplitudes, length \in Durations,
          duty_cycle \in DutyCycles : pulse(note, amplitude, length, duty_cycle)
    \/ Return

PulseSpec == Init /\ [][PulseNext]_vars

---------------------------------------------------------------------------
(* Properties *)

Returned(op) == pc = "returned" /\ call.op = op

\* The note strings made of a pitch name of NOTES and an octave digit 0..8.
OctaveDigit == <<"0", "1", "2", "3", "4", "5", "6", "7", "8">>
ValidNote(n, o) == StrNote(n \o <<OctaveDigit[o + 1]>>)

\* C5: _get_frequency on a pitch name N of NOTES followed by an octave digit
\* O in 0..8 returns NOTES[N] * OCTAVES[O]; "A4" gives 440.0 and "C4" gives
\* 261.63.
C5_NoteResolvesToProduct ==
    Returned("_get_frequency") =>
        /\ \A n \in DOMAIN NOTES, o \in 0..8 :
              call.note = ValidNote(n, o) =>
                  outcome = "ok" /\ retFreq = RatMul(NOTES[n], OCTAVES[o])
        /\ call.note = StrNote(<<"A", "4">>) => retFreq = Whole(440)
        /\ call.note = StrNote(<<"C", "4">>) => retFreq = Rat(26163, 100)

\* C5 witness: a sharp note in a scaled octave has been resolved.
C5_Witness ==
    /\ Returned("_get_frequency")
    /\ call.note = StrNote(<<"C", "#", "2">>)
    /\ outcome = "ok"
    /\ retFreq = Rat(277183, 4000)

\* C6: a positive numeric note, float or int, is returned unchanged and no
\* error is raised.
C6_NumericNoteReturned ==
    (Returned("_get_frequency") /\ call.note.type \in {"float", "int"}
        /\ RatLt(Whole(0), call.note.v)) =>
        outcome = "ok" /\ retFreq = call.note.v

\* C9: octave 4 is the unscaled reference and each octave's multiplier is
\* twice the one below: a note resolved in octave 4 has the frequency of
\* NOTES, and a note resolved one octave higher has exactly twice the
\* frequency.
C9_OctaveDoubles ==
    Returned("_get_frequency") =>
        \A n \in DOMAIN NOTES, o \in 0..8 :
            (call.note = ValidNote(n, o) /\ outcome = "ok") =>
                /\ o = 4 => retFreq = NOTES[n]
                /\ o < 8 => /\ OCTAVES[o + 1] = RatMul(Whole(2), OCTAVES[o])
                            /\ _get_frequency(ValidNote(n, o + 1)).v
                                 = RatMul(Whole(2), retFreq)

\* C1: to_wav(payload) returns 44 + L bytes: the header with L + 36 in bytes
\* 4..7 and L in bytes 40..43, both little-endian, every other header byte
\* as in HEADER, then the payload; whatever calls came before.
C1_ToWavReturnsWav ==
    Returned("to_wav") =>
        LET L == Len(call.data)
        IN  /\ outcome = "ok"
            /\ Len(retBytes) = 44 + L
            /\ SubSeq(retBytes, 5, 8) = PackU32(L + 36)
            /\ SubSeq(retBytes, 41, 44) = PackU32(L)
            /\ SubSeq(retBytes, 1, 4) = SubSeq(HEADER.data, 1, 4)
            /\ SubSeq(retBytes, 9, 40) = SubSeq(HEADER.data, 9, 40)
            /\ SubSeq(retBytes, 45, 44 + L) = call.data

\* The number of output samples, floor(44100 * duration), of the call.
N_out == (FRAMERATE * call.length[1]) \div call.length[2]
\* Output sample i (from 0) of the returned bytes, as a signed 16-bit value.
SampleAt(bytes, i) ==
    LET u == bytes[2 * i + 1] + 256 * bytes[2 * i + 2]
    IN  IF u >= 32768 THEN u - 65536 ELSE u
Packed == pc = "returned" /\ call.op \in WaveOps \cup {"_to_bytes"}

\* C2: with a cycle of P >= 1 samples, _to_bytes returns N = floor(44100 *
\* duration) samples in 2N bytes, and output sample i is the quantized
\* cycle sample i mod P; no error is raised, also when N < P.
C2_TilesCycle ==
    (Packed /\ Len(cycle) >= 1) =>
        /\ outcome = "ok"
        /\ Len(retBytes) = 2 * N_out
        /\ \E mode \in CastModes :
              \A i \in 0..(N_out - 1) :
                  SampleAt(retBytes, i) = Quantize(cycle[(i % Len(cycle)) + 1], mode)

\* C2 witness: a cycle of 3 samples tiled over 4 output samples (one whole
\* copy and a first sample of the next).
C2_Witness ==
    /\ Returned("sawtooth")
    /\ outcome = "ok"
    /\ Len(cycle) = 3
    /\ N_out = 4
    /\ Len(retBytes) = 8
    /\ SampleAt(retBytes, 3) = SampleAt(retBytes, 0)
    /\ SampleAt(retBytes, 1) # SampleAt(retBytes, 0)

\* C7: tiling a cycle of length 0 over N >= 1 output samples ends with an
\* error; it neither loops for ever nor returns a buffer.
C7_EmptyCycleIsError ==
    (Packed /\ Len(cycle) = 0 /\ N_out >= 1) => outcome = "error"

\* The frequency and the clamped amplitude of the call.
CallFreq == _get_frequency(call.note)
InAudibleRange(f) == RatLt(Whole(0), f) /\ RatLt(f, Whole(FRAMERATE))
Clamped(a) ==
    IF RatLt(a, Whole(0)) THEN Whole(0) ELSE IF RatLt(Whole(1), a) THEN Whole(1) ELSE a

\* C3: for 0 < f < 44100 every sample of the generated cycle lies in
\* [-a', a'] for a' the amplitude clamped into [0, 1], so that its product
\* with 32767 is within the signed 16-bit range.
C3_CycleWithinAmplitude ==
    (pc = "returned" /\ call.op \in WaveOps /\ CallFreq.ok /\ InAudibleRange(CallFreq.v)) =>
        \A k \in DOMAIN cycle :
            /\ RatLe(RatNeg(Clamped(call.amplitude)), cycle[k])
            /\ RatLe(cycle[k], Clamped(call.amplitude))
            /\ ScaleTrunc(cycle[k], AMPLITUDE_SCALE) \in -32768..32767

\* The cycle a waveform method generates from stream state s.
GenCycle(op, s, note, amplitude, duty_cycle) ==
    CASE op = "sine" -> _sine(note, amplitude)
      [] op = "triangle" -> _triangle(note, amplitude)
      [] op = "sawtooth" -> _sawtooth(note, amplitude)
      [] op = "pulse" -> _pulse(note, amplitude, duty_cycle)
      [] op = "noise" -> _noise(s, note, amplitude)

\* C4: an amplitude outside [0, 1] is clamped for every waveform kind: the
\* call generates the cycle that the clamped amplitude gives from the same
\* state of the random stream, and is rejected only if that one is.
C4_AmplitudeClamped ==
    [][(pc = "idle" /\ pc' = "returned" /\ call'.op \in WaveOps
            /\ call'.amplitude \in {Rat(-1, 2), Rat(3, 2)}) =>
         LET g == GenCycle(call'.op, rng, call'.note,
                           Clamped(call'.amplitude), call'.duty_cycle)
         IN  /\ cycle' = g.arr
             /\ outcome' = "error" => ~g.ok]_vars

\* C8: for 0 < f < 44100, a in [0, 1] and d in 1..100 the pulse cycle has
\* floor(44100 / f) samples, +a before floor(d * period / 100) and -a from
\* there on; f = 100.0, a = 1.0, d = 50 gives 441 samples, 0..219 at +1.0
\* and 220..440 at -1.0.
C8_PulseShape ==
    (Returned("pulse") /\ CallFreq.ok /\ InAudibleRange(CallFreq.v)
        /\ RatLe(Whole(0), call.amplitude) /\ RatLe(call.amplitude, Whole(1))
        /\ call.duty_cycle \in 1..100) =>
        LET period == (FRAMERATE * CallFreq.v[2]) \div CallFreq.v[1]
            threshold == (call.duty_cycle * period) \div 100
        IN  /\ Len(cycle) = period
            /\ \A t \in 0..(period - 1) :
                  cycle[t + 1] = IF t < threshold THEN call.amplitude
                                 ELSE RatNeg(call.amplitude)
            /\ (call.note = FloatNote(Whole(100)) /\ call.amplitude = Whole(1)
                  /\ call.duty_cycle = 50) =>
                  /\ Len(cycle) = 441
                  /\ \A t \in 0..219 : cycle[t + 1] = Whole(1)
                  /\ \A t \in 220..440 : cycle[t + 1] = Whole(-1)

\* C8 witness: the pulse of 100.0 Hz at amplitude 1.0 and duty cycle 50.
C8_Witness ==
    /\ Returned("pulse")
    /\ call.note = FloatNote(Whole(100))
    /\ call.amplitude = Whole(1)
    /\ call.duty_cycle = 50
    /\ outcome = "ok"
    /\ Len(cycle) = 441
    /\ cycle[220] = Whole(1)
    /\ cycle[221] = Whole(-1)

\* Whether q is an integer nearest to x * AMPLITUDE_SCALE (either neighbour
\* at a tie).
NearestTo(x, q) ==
    LET n == Abs(x[1])
        md == MulDivMod(n % x[2], AMPLITUDE_SCALE, x[2])
        m == (n \div x[2]) * AMPLITUDE_SCALE + md[1]
        sg == IF x[1] < 0 THEN -1 ELSE 1
    IN  \/ 2 * md[2] <= x[2] /\ q = sg * m
        \/ 2 * md[2] >= x[2] /\ q = sg * (m + 1)
InUnitRange(x) == RatLe(Whole(-1), x) /\ RatLe(x, Whole(1))
\* The output samples that are copies of cycle sample k (from 1), first copy.
FirstCopies == 1..(IF N_out < Len(cycle) THEN N_out ELSE Len(cycle))

\* C10 as stated: a cycle sample s in [-1, 1] is quantized to the integer
\* nearest to s * 32767.
C10_QuantizeRounds ==
    (Packed /\ outcome = "ok") =>
        \A k \in FirstCopies :
            InUnitRange(cycle[k]) => NearestTo(cycle[k], SampleAt(retBytes, k - 1))

\* C10 amended: a cycle sample s in [-1, 1] is quantized to s * 32767
\* truncated toward zero.
C10_QuantizeTruncates ==
    (Packed /\ outcome = "ok") =>
        \A k \in FirstCopies :
            InUnitRange(cycle[k]) =>
                LET q == SampleAt(retBytes, k - 1)
                    whole == ScaleTrunc(RatAbs(cycle[k]), AMPLITUDE_SCALE)
                IN  /\ Abs(q) = whole
                    /\ q # 0 => (q < 0 <=> cycle[k][1] < 0)

\* C10 witness: the sample 1/4, whose product 8191.75 is nearer to 8192, has
\* been quantized to 8191.
C10_Witness ==
    /\ Returned("_to_bytes")
    /\ outcome = "ok"
    /\ cycle = <<Rat(1, 4)>>
    /\ N_out >= 1
    /\ SampleAt(retBytes, 0) = 8191

===========================================================================
